---- MODULE Spec2Model ----
(***************************************************************************)
(* The attribute-based authorization check of nq-api                       *)
(* (src/src/authz.rs, AuthZController::check and the condition            *)
(* validators), as a state machine: one check at a time runs from its     *)
(* call to its return (Ok, Err(AUTHZ_PERMISSION_DENIED)) or to a panic.    *)
(*                                                                         *)
(* Option<T> is a sequence: <<>> is None, <<x>> is Some(x).                *)
(* A Rust String that the code parses or compares with a formatted number  *)
(* is a sequence of one-character strings.                                 *)
(***************************************************************************)
EXTENDS Integers, Sequences, FiniteSets, TLC

VARIABLES
    app_permissions,            \* table: rows [account_id, object, action]; id = index
    app_permission_conditions,  \* table: rows [permission_id, name, value]
    app_users,                  \* table: id -> account_id
    app_organizations,          \* table: id -> owner_account_id
    pc,                         \* position of the running check
    account_id,                 \* argument: Option<u32>
    path,                       \* argument: ParsedPath [controller, id]
    method,                     \* argument: String
    calculated_action,          \* Option<Action>, set inside web::block
    select_result,              \* Option<Result<(Vec<i32>, Vec<(String, String)>), RouterError>>
    model,                      \* Option<Box<dyn ModelPermission>>
    examined,                   \* number of conditions the for loop has consumed
    audit_writes,               \* log_to_db calls made by the running check
    result,                     \* what check() produced
    validator,                  \* one call of Condition::validate: its inputs and output
    pool,                       \* DbPool shared by concurrent checks, and those checks
    middleware,                 \* one call of TokenAuthMiddleware::call
    add_perm                    \* one call of the add_permission handler

vars == << app_permissions, app_permission_conditions, app_users, app_organizations,
           pc, account_id, path, method, calculated_action, select_result,
           model, examined, audit_writes, result,
           validator, pool, middleware, add_perm >>

\* what AuthZController::check leaves alone
others == << validator, pool, middleware, add_perm >>

storage == << app_permissions, app_permission_conditions, app_users, app_organizations >>

args == << account_id, path, method >>

----------------------------------------------------------------------------
(* Bounds and input domains *)

MaxConditions == 2

None == << >>

Some(x) == << x >>

IsSome(o) == Len(o) = 1

Unwrap(o) == o[1]

Subjects == {None, Some(42)}

Objects == {"organization", "user", "mushaf"}

Controllers == {None} \cup {Some(o) : o \in Objects}

Ids == {None, Some(<<"1", "7">>), Some(<<"1", "8">>), Some(<<"a", "b", "c">>)}

Methods == {"GET", "POST", "DELETE", "PUT"}

UserAgents == {"absent", "visible-ascii", "opaque-bytes"}

\* Grants the tables are drawn from: for subject 42 on each controller, and
\* one for another account.
GrantOrgDelete == [account_id |-> 42, object |-> "organization", action |-> "delete"]

GrantOtherAccount == [account_id |-> 99, object |-> "organization", action |-> "delete"]

GrantUserEdit == [account_id |-> 42, object |-> "user", action |-> "edit"]

GrantMushafView == [account_id |-> 42, object |-> "mushaf", action |-> "view"]

PermissionTables ==
    { << >>,
      << GrantOrgDelete >>, << GrantOtherAccount >>,
      << GrantUserEdit >>, << GrantMushafView >>,
      << GrantOrgDelete, GrantOrgDelete >>,
      << GrantOtherAccount, GrantOrgDelete >> }

ConditionPairs ==
    { <<"isOwner", "true">>, <<"isOwner", "false">>, <<"isOwner", "">>,
      <<"isLoggedIn", "true">>, <<"isLoggedIn", "">>, <<"isAdmin", "true">> }

\* Resources 17 and 18 of either kind: 17 belongs to account 42, 18 to account 99.
StoredOwners == (17 :> 42) @@ (18 :> 99)

SeqsUpTo(S, n) == UNION { [1..k -> S] : k \in 0..n }

----------------------------------------------------------------------------
(* Action::from_auth_z and From<Action> for &str *)

\* from_auth_z with DELETE mapped to Delete whether or not the path has an id
from_auth_z_DeleteWithoutId(p, m) ==
    IF IsSome(p.id) /\ m = "GET" THEN "View"
    ELSE IF ~IsSome(p.id) /\ m = "POST" THEN "Create"
    ELSE IF IsSome(p.id) /\ m = "POST" THEN "Edit"
    ELSE IF m = "DELETE" THEN "Delete"
    ELSE "View"

from_auth_z(p, m) ==
    IF IsSome(p.id) /\ m = "GET" THEN "View"
    ELSE IF ~IsSome(p.id) /\ m = "POST" THEN "Create"
    ELSE IF IsSome(p.id) /\ m = "POST" THEN "Edit"
    ELSE IF IsSome(p.id) /\ m = "DELETE" THEN "Delete"
    ELSE IF ~IsSome(p.id) THEN "View"
    ELSE "View"

ActionStr(a) ==
    CASE a = "Create" -> "create"
      [] a = "Edit" -> "edit"
      [] a = "Delete" -> "delete"
      [] a = "View" -> "view"

----------------------------------------------------------------------------
(* Number <-> string conversions used by check() *)

Digits == <<"0", "1", "2", "3", "4", "5", "6", "7", "8", "9">>

IsDigit(c) == \E d \in 1..10 : Digits[d] = c

DigitValue(c) == (CHOOSE d \in 1..10 : Digits[d] = c) - 1

RECURSIVE NatToString(_)
NatToString(n) ==
    IF n < 10 THEN << Digits[n + 1] >>
    ELSE Append(NatToString(n \div 10), Digits[(n % 10) + 1])

\* i32::to_string / u32::to_string
to_string(n) == IF n < 0 THEN << "-" >> \o NatToString(0 - n) ELSE NatToString(n)

RECURSIVE DigitsValue(_)
DigitsValue(s) ==
    IF Len(s) = 0 THEN 0
    ELSE DigitsValue(SubSeq(s, 1, Len(s) - 1)) * 10 + DigitValue(s[Len(s)])

\* str::parse::<u32>: Some(number) for a non-empty run of decimal digits
\* (an optional leading "+"), None otherwise.
ParseU32(s) ==
    LET body == IF Len(s) > 0 /\ s[1] = "+" THEN Tail(s) ELSE s
    IN  IF Len(body) > 0 /\ Len(body) <= 9 /\ \A i \in 1..Len(body) : IsDigit(body[i])
        THEN Some(DigitsValue(body))
        ELSE None

\* `x as i32` on a u32
AsI32(n) == IF n > 2147483647 THEN (n - 2147483647) - 2147483647 - 2 ELSE n

----------------------------------------------------------------------------
(* Condition registry *)

\* try_from with a default arm that accepts any name
ModelAttrib_try_from_Lenient(name) ==
    IF name = "isOwner" THEN Some("Owner") ELSE Some("Login")

\* impl TryFrom<&str> for ModelAttrib
ModelAttrib_try_from(name) ==
    IF name = "isOwner" THEN Some("Owner")
    ELSE IF name = "isLoggedIn" THEN Some("Login")
    ELSE None

\* impl TryFrom<&str> for ConditionValueType
ConditionValueType_try_from(value) ==
    IF value = "true" \/ value = "false" THEN Some("Boolean") ELSE None

\* Owner::validate with a literal other than "true" / "false" rejected
Owner_validate_StrictLiteral(attr, subject, condition_value) ==
    IF ~IsSome(subject) THEN FALSE
    ELSE IF condition_value = "true"
         THEN IsSome(attr) /\ Unwrap(subject) = to_string(Unwrap(attr))
    ELSE IF condition_value = "false"
         THEN ~IsSome(attr) \/ Unwrap(subject) # to_string(Unwrap(attr))
    ELSE FALSE

\* Owner::validate
Owner_validate(attr, subject, condition_value) ==
    IF ~IsSome(subject) THEN FALSE
    ELSE IF condition_value = "true"
         THEN IsSome(attr) /\ Unwrap(subject) = to_string(Unwrap(attr))
    ELSE IF condition_value = "false"
         THEN ~IsSome(attr) \/ Unwrap(subject) # to_string(Unwrap(attr))
    ELSE TRUE

\* Login::validate that also wants the literal "true"
Login_validate_ReadsLiteral(attr, subject, condition_value) ==
    IsSome(subject) /\ condition_value = "true"

\* Login::validate
Login_validate(attr, subject, condition_value) == IsSome(subject)

\* ModelAttribResult::from(model_attr).validate(..)
ModelAttribResult_validate(model_attr, attr, subject, condition_value) ==
    IF model_attr = "Owner" THEN Owner_validate(attr, subject, condition_value)
    ELSE Login_validate(attr, subject, condition_value)

\* impl ModelPermission with the arms of the match swapped
get_attr_SwappedArms(m, name) ==
    IF m.kind = "user"
    THEN (IF name = "Owner" THEN None ELSE Some(m.account_id))
    ELSE (IF name = "Owner" THEN None ELSE Some(m.owner_account_id))

\* User::from_id / Organization::from_id: the owner column of the stored row
from_id(table, resource_id) == table[resource_id]

\* impl ModelPermission for User / Organization
get_attr(m, name) ==
    IF m.kind = "user"
    THEN (IF name = "Owner" THEN Some(m.account_id) ELSE None)
    ELSE (IF name = "Owner" THEN Some(m.owner_account_id) ELSE None)

----------------------------------------------------------------------------
(* Permission repository: the two queries of web::block *)

\* the permission filter without the account_id column
MatchingIds_AnyAccount(subject_i32, object, action) ==
    { i \in 1..Len(app_permissions) :
        /\ app_permissions[i].object = object
        /\ app_permissions[i].action = action }

MatchingIds(subject_i32, object, action) ==
    { i \in 1..Len(app_permissions) :
        /\ app_permissions[i].account_id = subject_i32
        /\ app_permissions[i].object = object
        /\ app_permissions[i].action = action }

RECURSIVE SetToSeq(_)
SetToSeq(S) ==
    IF S = {} THEN << >>
    ELSE LET x == CHOOSE y \in S : \A z \in S : y <= z
         IN  << x >> \o SetToSeq(S \ {x})

\* the join without the permission filter: every stored condition is returned
JoinedConditions_Unfiltered(ids, rows) ==
    [j \in DOMAIN rows |-> << rows[j].name, rows[j].value >>]

RECURSIVE JoinedConditions(_, _)
JoinedConditions(ids, rows) ==
    IF Len(rows) = 0 THEN << >>
    ELSE (IF Head(rows).permission_id \in ids
          THEN << << Head(rows).name, Head(rows).value >> >>
          ELSE << >>) \o JoinedConditions(ids, Tail(rows))

----------------------------------------------------------------------------
ConditionRows(n) ==
    { [permission_id |-> i, name |-> p[1], value |-> p[2]] :
        i \in 1..n, p \in ConditionPairs }

\* No call of Condition::validate outside check() is under way
ValidatorIdle ==
    [phase |-> "idle", condition |-> "Owner", attribute |-> None, subject |-> None,
     literal |-> "", out |-> FALSE]

\* No concurrent checks share the pool
PoolIdle == [free |-> 0, checks |-> << >>]

\* No request is in the TokenAuth middleware
MiddlewareIdle == [phase |-> "idle", service_called |-> FALSE]

\* No add_permission call is under way
AddPermIdle == [phase |-> "idle"]

Init ==
    /\ validator = ValidatorIdle
    /\ pool = PoolIdle
    /\ middleware = MiddlewareIdle
    /\ add_perm = AddPermIdle
    /\ app_permissions \in PermissionTables
    /\ app_permission_conditions \in
          SeqsUpTo(ConditionRows(Len(app_permissions)), MaxConditions)
    /\ app_users = StoredOwners
    /\ app_organizations = StoredOwners
    /\ pc = "idle"
    /\ account_id = None
    /\ path = [controller |-> None, id |-> None]
    /\ method = "GET"
    /\ calculated_action = None
    /\ select_result = None
    /\ model = None
    /\ examined = 0
    /\ audit_writes = 0
    /\ result = "none"

----------------------------------------------------------------------------
(* AuthZController::check, step by step *)

Finish(r) ==
    /\ pc' = "done"
    /\ result' = r

\* check() is called; lines 87-104 build the error detail.  A User-agent
\* header that is not visible ASCII makes to_str().unwrap() panic.
StartCheck ==
    /\ pc = "idle"
    /\ \E s \in Subjects, c \in Controllers, i \in Ids, m \in Methods, ua \in UserAgents :
          /\ account_id' = s
          /\ path' = [controller |-> c, id |-> i]
          /\ method' = m
          /\ IF ua = "opaque-bytes"
             THEN Finish("Panic")
             ELSE pc' = "get_conn" /\ result' = "none"
    /\ calculated_action' = None
    /\ select_result' = None
    /\ model' = None
    /\ examined' = 0
    /\ audit_writes' = 0
    /\ UNCHANGED storage
    /\ UNCHANGED others

\* self.db_pool.get() returns a connection
GetConnOk ==
    /\ pc = "get_conn"
    /\ pc' = "select"
    /\ UNCHANGED << storage, args, calculated_action, select_result, model,
                    examined, audit_writes, result >>
    /\ UNCHANGED others

\* self.db_pool.get() returns Err (no connection within the timeout): unwrap panics
GetConnErr ==
    /\ pc = "get_conn"
    /\ Finish("Panic")
    /\ UNCHANGED << storage, args, calculated_action, select_result, model,
                    examined, audit_writes >>
    /\ UNCHANGED others

\* web::block closure: account_id.unwrap() or path_copy.controller.unwrap()
\* panics, and .await.unwrap() panics on the resulting BlockingError
SelectPanics ==
    /\ pc = "select"
    /\ ~IsSome(account_id) \/ ~IsSome(path.controller)
    /\ calculated_action' = Some(from_auth_z(path, method))
    /\ Finish("Panic")
    /\ UNCHANGED << storage, args, select_result, model, examined, audit_writes >>
    /\ UNCHANGED others

\* web::block closure: both loads succeed
SelectLoads ==
    /\ pc = "select"
    /\ IsSome(account_id) /\ IsSome(path.controller)
    /\ LET action == from_auth_z(path, method)
           ids == MatchingIds(AsI32(Unwrap(account_id)), Unwrap(path.controller),
                              ActionStr(action))
       IN  /\ calculated_action' = Some(action)
           /\ select_result' =
                 Some([ok |-> TRUE,
                       permissions |-> SetToSeq(ids),
                       conditions |-> JoinedConditions(ids, app_permission_conditions)])
    /\ pc' = "selected"
    /\ UNCHANGED << storage, args, model, examined, audit_writes, result >>
    /\ UNCHANGED others

\* web::block closure: one of the two loads fails and `?` returns the error
SelectFails ==
    /\ pc = "select"
    /\ IsSome(account_id) /\ IsSome(path.controller)
    /\ calculated_action' = Some(from_auth_z(path, method))
    /\ select_result' = Some([ok |-> FALSE, permissions |-> << >>, conditions |-> << >>])
    /\ pc' = "selected"
    /\ UNCHANGED << storage, args, model, examined, audit_writes, result >>
    /\ UNCHANGED others

\* lines 133-147
Decide ==
    /\ pc = "selected"
    /\ LET r == Unwrap(select_result)
       IN  IF ~r.ok
           THEN /\ audit_writes' = audit_writes + 1
                /\ Finish("PermissionDenied")
           ELSE IF Len(r.permissions) = 0
           THEN /\ audit_writes' = audit_writes + 1
                /\ Finish("PermissionDenied")
           ELSE IF Len(r.conditions) = 0
           THEN /\ audit_writes' = audit_writes
                /\ Finish("Allow")
           ELSE /\ audit_writes' = audit_writes
                /\ pc' = "get_model"
                /\ result' = result
    /\ UNCHANGED << storage, args, calculated_action, select_result, model, examined >>
    /\ UNCHANGED others

\* lines 152-157 and get_model: the unwraps and todo!() panic.  User::from_id
\* and Organization::from_id load the row of the given id; the numeric ids of
\* Ids are rows of the tables, so the load finds its row.
GetModel ==
    /\ pc = "get_model"
    /\ LET resource_name == Unwrap(path.controller)
           parsed == IF IsSome(path.id) THEN ParseU32(Unwrap(path.id)) ELSE None
       IN  IF ~IsSome(path.id) \/ ~IsSome(parsed)
           THEN Finish("Panic") /\ model' = model
           ELSE LET resource_id == AsI32(Unwrap(parsed))
                IN  IF resource_name = "user" /\ resource_id \in DOMAIN app_users
                    THEN /\ model' = Some([kind |-> "user",
                                           account_id |-> from_id(app_users, resource_id),
                                           owner_account_id |-> 0])
                         /\ pc' = "loop"
                         /\ result' = result
                    ELSE IF resource_name = "organization"
                            /\ resource_id \in DOMAIN app_organizations
                    THEN /\ model' = Some([kind |-> "organization",
                                           account_id |-> 0,
                                           owner_account_id |-> from_id(app_organizations, resource_id)])
                         /\ pc' = "loop"
                         /\ result' = result
                    ELSE Finish("Panic") /\ model' = model
    /\ UNCHANGED << storage, args, calculated_action, select_result, examined, audit_writes >>
    /\ UNCHANGED others

\* the loop with conditions AND-combined: the first condition that does not
\* validate denies
LoopStep_FirstFailureDenies ==
    /\ pc = "loop"
    /\ examined < Len(Unwrap(select_result).conditions)
    /\ LET cond == Unwrap(select_result).conditions[examined + 1]
           model_attr == ModelAttrib_try_from(cond[1])
       IN  IF ~IsSome(model_attr)
           THEN /\ audit_writes' = audit_writes + 2
                /\ Finish("PermissionDenied")
           ELSE IF ~ModelAttribResult_validate(
                       Unwrap(model_attr),
                       get_attr(Unwrap(model), Unwrap(model_attr)),
                       IF IsSome(account_id) THEN Some(to_string(Unwrap(account_id)))
                       ELSE None,
                       cond[2])
           THEN /\ audit_writes' = audit_writes + 1
                /\ Finish("PermissionDenied")
           ELSE IF examined + 1 = Len(Unwrap(select_result).conditions)
           THEN /\ audit_writes' = audit_writes
                /\ Finish("Allow")
           ELSE /\ audit_writes' = audit_writes
                /\ pc' = pc
                /\ result' = result
    /\ examined' = examined + 1
    /\ UNCHANGED << storage, args, calculated_action, select_result, model >>
    /\ UNCHANGED others

\* the loop taking the conditions from the last returned to the first
LoopStep_LastToFirst ==
    /\ pc = "loop"
    /\ examined < Len(Unwrap(select_result).conditions)
    /\ LET cond == Unwrap(select_result).conditions[Len(Unwrap(select_result).conditions) - examined]
           model_attr == ModelAttrib_try_from(cond[1])
       IN  IF ~IsSome(model_attr)
           THEN /\ audit_writes' = audit_writes + 2
                /\ Finish("PermissionDenied")
           ELSE LET attr == get_attr(Unwrap(model), Unwrap(model_attr))
                    inner_subject ==
                        IF IsSome(account_id) THEN Some(to_string(Unwrap(account_id)))
                        ELSE None
                IN  IF ModelAttribResult_validate(Unwrap(model_attr), attr,
                                                  inner_subject, cond[2])
                    THEN /\ audit_writes' = audit_writes
                         /\ Finish("Allow")
                    ELSE /\ audit_writes' = audit_writes
                         /\ pc' = pc
                         /\ result' = result
    /\ examined' = examined + 1
    /\ UNCHANGED << storage, args, calculated_action, select_result, model >>
    /\ UNCHANGED others

\* one iteration of the for loop, lines 160-189
LoopStep ==
    /\ pc = "loop"
    /\ examined < Len(Unwrap(select_result).conditions)
    /\ LET cond == Unwrap(select_result).conditions[examined + 1]
           model_attr == ModelAttrib_try_from(cond[1])
       IN  IF ~IsSome(model_attr)
           THEN /\ audit_writes' = audit_writes + 2
                /\ Finish("PermissionDenied")
           ELSE LET attr == get_attr(Unwrap(model), Unwrap(model_attr))
                    inner_subject ==
                        IF IsSome(account_id) THEN Some(to_string(Unwrap(account_id)))
                        ELSE None
                IN  IF ModelAttribResult_validate(Unwrap(model_attr), attr,
                                                  inner_subject, cond[2])
                    THEN /\ audit_writes' = audit_writes
                         /\ Finish("Allow")
                    ELSE /\ audit_writes' = audit_writes
                         /\ pc' = pc
                         /\ result' = result
    /\ examined' = examined + 1
    /\ UNCHANGED << storage, args, calculated_action, select_result, model >>
    /\ UNCHANGED others

\* the loop ran out of conditions, lines 191-192
LoopExhausted ==
    /\ pc = "loop"
    /\ examined = Len(Unwrap(select_result).conditions)
    /\ audit_writes' = audit_writes + 1
    /\ Finish("PermissionDenied")
    /\ UNCHANGED << storage, args, calculated_action, select_result, model, examined >>
    /\ UNCHANGED others

Next ==
    \/ StartCheck
    \/ GetConnOk
    \/ GetConnErr
    \/ SelectPanics
    \/ SelectLoads
    \/ SelectFails
    \/ Decide
    \/ GetModel
    \/ LoopStep
    \/ LoopExhausted

Spec == Init /\ [][Next]_vars

----------------------------------------------------------------------------
(* Condition::validate called on its own, as the unit tests of authz.rs do *)

ValidateAttributes == {None, Some(7), Some(9), Some(70), Some(0 - 7)}

ValidateSubjects ==
    {None, Some(<<"7">>), Some(<<"9">>), Some(<<"0", "7">>), Some(<<"-", "7">>),
     Some(<<"u", "s", "e", "r">>)}

ValidateLiterals == {"true", "false", "", "TRUE"}

CheckIdle ==
    /\ app_permissions = << >>
    /\ app_permission_conditions = << >>
    /\ app_users = StoredOwners
    /\ app_organizations = StoredOwners
    /\ pc = "off"
    /\ account_id = None
    /\ path = [controller |-> None, id |-> None]
    /\ method = "GET"
    /\ calculated_action = None
    /\ select_result = None
    /\ model = None
    /\ examined = 0
    /\ audit_writes = 0
    /\ result = "none"

check_vars == << storage, args, pc, calculated_action, select_result, model, examined,
                 audit_writes, result >>

InitValidate ==
    /\ CheckIdle
    /\ pool = PoolIdle
    /\ middleware = MiddlewareIdle
    /\ add_perm = AddPermIdle
    /\ validator \in
          [phase : {"called"}, condition : {"Owner", "Login"},
           attribute : ValidateAttributes, subject : ValidateSubjects,
           literal : ValidateLiterals, out : {FALSE}]

\* condition.validate(attribute, subject, literal) returns
CallValidate ==
    /\ validator.phase = "called"
    /\ validator' =
          [validator EXCEPT
             !.phase = "returned",
             !.out = ModelAttribResult_validate(validator.condition, validator.attribute,
                                                validator.subject, validator.literal)]
    /\ UNCHANGED << check_vars, pool, middleware, add_perm >>

NextValidate == CallValidate

SpecValidate == InitValidate /\ [][NextValidate]_vars
----------------------------------------------------------------------------
(* Concurrent checks on one DbPool: what each check does with its connection *)

PoolSize == 1

NumChecks == 3

Checks == 1..NumChecks

SelectOutcomes == {"err", "no-grant", "no-conditions", "conditions"}

InitPool ==
    /\ CheckIdle
    /\ validator = ValidatorIdle
    /\ middleware = MiddlewareIdle
    /\ add_perm = AddPermIdle
    /\ pool = [free |-> PoolSize,
               checks |-> [p \in Checks |->
                             [pc |-> "idle", conn |-> FALSE, starved |-> FALSE,
                              selected |-> "none", result |-> "none"]]]

SetCheck(p, c, free) ==
    /\ pool' = [free |-> free, checks |-> [pool.checks EXCEPT ![p] = c]]
    /\ UNCHANGED << check_vars, validator, middleware, add_perm >>

\* check() is called, lines 87-104
PoolStart(p) ==
    /\ pool.checks[p].pc = "idle"
    /\ SetCheck(p, [pool.checks[p] EXCEPT !.pc = "get_conn"], pool.free)

\* self.db_pool.get() hands out a free connection
PoolGet(p) ==
    /\ pool.checks[p].pc = "get_conn"
    /\ pool.free > 0
    /\ SetCheck(p, [pool.checks[p] EXCEPT !.pc = "select", !.conn = TRUE], pool.free - 1)

\* self.db_pool.get() finds no free connection until its timeout and returns
\* Err; unwrap() panics
PoolGetTimeout(p) ==
    /\ pool.checks[p].pc = "get_conn"
    /\ pool.free = 0
    /\ SetCheck(p, [pool.checks[p] EXCEPT !.pc = "done", !.starved = TRUE,
                                         !.result = "Panic"], pool.free)

\* the web::block closure owns conn: it runs the two queries (or panics on an
\* unwrap) and drops conn when it ends, which puts it back in the pool
PoolSelect(p) ==
    /\ pool.checks[p].pc = "select"
    /\ \E o \in SelectOutcomes \cup {"panic"} :
          IF o = "panic"
          THEN SetCheck(p, [pool.checks[p] EXCEPT !.pc = "done", !.conn = FALSE,
                                                 !.result = "Panic"], pool.free + 1)
          ELSE SetCheck(p, [pool.checks[p] EXCEPT !.pc = "selected", !.conn = FALSE,
                                                 !.selected = o], pool.free + 1)

\* lines 133-193 on the result of the queries
PoolDecide(p) ==
    /\ pool.checks[p].pc = "selected"
    /\ \E r \in {"Allow", "PermissionDenied", "Panic"} :
          /\ pool.checks[p].selected \in {"err", "no-grant"} => r = "PermissionDenied"
          /\ pool.checks[p].selected = "no-conditions" => r = "Allow"
          /\ SetCheck(p, [pool.checks[p] EXCEPT !.pc = "done", !.result = r], pool.free)

NextPool ==
    \E p \in Checks :
        \/ PoolStart(p)
        \/ PoolGet(p)
        \/ PoolGetTimeout(p)
        \/ PoolSelect(p)
        \/ PoolDecide(p)

SpecPool == InitPool /\ [][NextPool]_vars

----------------------------------------------------------------------------
(* TokenAuthMiddleware::call (authN/src/middleware.rs) *)

Tokens == {"token-a", "token-b"}

\* the Authorization header: missing, not valid as a str, or a token
AuthorizationHeaders == {"absent", "opaque-bytes"} \cup Tokens

\* what TokenChecker::get_user_id answers for each token: Err or Ok(user id)
TokenCheckers == [Tokens -> {None, Some(42), Some(99)}]

InitMiddleware ==
    /\ CheckIdle
    /\ validator = ValidatorIdle
    /\ pool = PoolIdle
    /\ add_perm = AddPermIdle
    /\ middleware \in
          [phase : {"called"},
           header : AuthorizationHeaders,
           authorization_header_required : BOOLEAN,
           peer_addr : {None, Some("203.0.113.7")},
           token_finder : TokenCheckers,
           get_user_id : {"not-called"},
           extensions : {None},
           service_called : {FALSE},
           service_saw : {None},
           response : {"none"}]

\* headers().get(AUTHORIZATION).and_then(|token| token.to_str().ok())
ReadableToken(header) == IF header \in Tokens THEN Some(header) ELSE None

MwDone(m) == UNCHANGED << check_vars, validator, pool, add_perm >> /\ middleware' = m

\* the match on the header with the required flag ignored
MwMatchHeader_IgnoresRequired ==
    /\ middleware.phase = "called"
    /\ IF IsSome(ReadableToken(middleware.header))
       THEN MwDone([middleware EXCEPT !.phase = "get_user_id"])
       ELSE MwDone([middleware EXCEPT !.phase = "service"])

\* the match on the header, lines 121-126 and 144-148
MwMatchHeader ==
    /\ middleware.phase = "called"
    /\ IF IsSome(ReadableToken(middleware.header))
       THEN MwDone([middleware EXCEPT !.phase = "get_user_id"])
       ELSE IF middleware.authorization_header_required
       THEN MwDone([middleware EXCEPT !.phase = "done", !.response = "token-not-found"])
       ELSE MwDone([middleware EXCEPT !.phase = "service"])

\* lines 126-143: peer_addr().unwrap() is evaluated for the call, then
\* get_user_id answers
MwGetUserId ==
    /\ middleware.phase = "get_user_id"
    /\ IF ~IsSome(middleware.peer_addr)
       THEN MwDone([middleware EXCEPT !.phase = "done", !.response = "panic"])
       ELSE LET data == middleware.token_finder[Unwrap(ReadableToken(middleware.header))]
            IN  IF IsSome(data)
                THEN MwDone([middleware EXCEPT !.phase = "service", !.get_user_id = "ok",
                                              !.extensions = data])
                ELSE MwDone([middleware EXCEPT !.phase = "done", !.get_user_id = "err",
                                              !.response = "get-user-id-error"])

\* service.call(req).await?, lines 137-139 and 149-151
MwCallService ==
    /\ middleware.phase = "service"
    /\ \E r \in {"service-response", "service-error"} :
          MwDone([middleware EXCEPT !.phase = "done", !.service_called = TRUE,
                                    !.service_saw = middleware.extensions,
                                    !.response = r])

NextMiddleware ==
    \/ MwMatchHeader
    \/ MwGetUserId
    \/ MwCallService

SpecMiddleware == InitMiddleware /\ [][NextMiddleware]_vars

----------------------------------------------------------------------------
(* add_permission (routers/permission/add_permission.rs) *)

\* app_accounts: uuid -> id
AppAccounts == ("uuid-of-42" :> 42) @@ ("uuid-of-99" :> 99)

NewPermissionSubjects == {"uuid-of-42", "uuid-of-nobody"}

\* the caller's account id (ReqData<u32>): 42 has a row in app_users, 7 has none
Callers == {42, 7}

NewPermissionData ==
    [subject : NewPermissionSubjects,
     object : {"organization", "mushaf"},
     action : {"delete", "view"},
     conditions : SeqsUpTo(ConditionPairs, MaxConditions)]

InitAddPermission ==
    /\ CheckIdle
    /\ validator = ValidatorIdle
    /\ pool = PoolIdle
    /\ middleware = MiddlewareIdle
    /\ add_perm \in
          [phase : {"called"},
           data : Callers,
           new_permission : NewPermissionData,
           account : {None}, user : {None}, new_id : {None},
           validated : {0},
           response : {"none"}]

\* SimpleCondition::validate: the condition names a known attribute and its
\* value is of that condition's value type
SimpleCondition_validate(condition) ==
    /\ IsSome(ModelAttrib_try_from(condition[1]))
    /\ IsSome(ConditionValueType_try_from(condition[2]))

ApStep(a) ==
    /\ add_perm' = a
    /\ UNCHANGED << args, pc, calculated_action, select_result, model, examined,
                    audit_writes, result, validator, pool, middleware >>

\* lines 27-35: the two get_result lookups, each returning Err with `?`
AddPermLookups ==
    /\ add_perm.phase = "called"
    /\ LET subject == add_perm.new_permission.subject
           users == { u \in DOMAIN app_users : app_users[u] = AsI32(add_perm.data) }
       IN  IF subject \notin DOMAIN AppAccounts \/ users = {}
           THEN ApStep([add_perm EXCEPT !.phase = "done", !.response = "Err"])
           ELSE ApStep([add_perm EXCEPT
                          !.phase = "insert_permission",
                          !.account = Some(AppAccounts[subject]),
                          !.user = Some(CHOOSE u \in users : TRUE)])
    /\ UNCHANGED storage

\* lines 38-45: the permission row is inserted, or the insert fails
AddPermInsertPermission ==
    /\ add_perm.phase = "insert_permission"
    /\ \/ /\ app_permissions' =
                Append(app_permissions,
                       [account_id |-> Unwrap(add_perm.account),
                        object |-> add_perm.new_permission.object,
                        action |-> add_perm.new_permission.action])
          /\ ApStep([add_perm EXCEPT !.phase = "conditions",
                                    !.new_id = Some(Len(app_permissions) + 1)])
       \/ /\ app_permissions' = app_permissions
          /\ ApStep([add_perm EXCEPT !.phase = "done", !.response = "Err"])
    /\ UNCHANGED << app_permission_conditions, app_users, app_organizations >>

\* lines 52-61: one iteration of the loop, condition.validate()? then push
AddPermValidate ==
    /\ add_perm.phase = "conditions"
    /\ add_perm.validated < Len(add_perm.new_permission.conditions)
    /\ IF SimpleCondition_validate(
             add_perm.new_permission.conditions[add_perm.validated + 1])
       THEN ApStep([add_perm EXCEPT !.validated = add_perm.validated + 1])
       ELSE ApStep([add_perm EXCEPT !.phase = "done", !.response = "Err"])
    /\ UNCHANGED storage

\* lines 63-67: the conditions are inserted and "Added" returned, or the
\* insert fails
AddPermInsertConditions ==
    /\ add_perm.phase = "conditions"
    /\ add_perm.validated = Len(add_perm.new_permission.conditions)
    /\ \/ /\ app_permission_conditions' =
                app_permission_conditions \o
                [j \in DOMAIN add_perm.new_permission.conditions |->
                    [permission_id |-> Unwrap(add_perm.new_id),
                     name |-> add_perm.new_permission.conditions[j][1],
                     value |-> add_perm.new_permission.conditions[j][2]]]
          /\ ApStep([add_perm EXCEPT !.phase = "done", !.response = "Added"])
       \/ /\ app_permission_conditions' = app_permission_conditions
          /\ ApStep([add_perm EXCEPT !.phase = "done", !.response = "Err"])
    /\ UNCHANGED << app_permissions, app_users, app_organizations >>

NextAddPermission ==
    \/ AddPermLookups
    \/ AddPermInsertPermission
    \/ AddPermValidate
    \/ AddPermInsertConditions

SpecAddPermission == InitAddPermission /\ [][NextAddPermission]_vars

----------------------------------------------------------------------------
(* Vocabulary of the properties *)

Returned == pc = "done"

\* The action table of the specification (section 4.1)
ResolvedAction(id_present, m) ==
    CASE id_present /\ m = "GET" -> "View"
      [] ~id_present /\ m = "POST" -> "Create"
      [] id_present /\ m = "POST" -> "Edit"
      [] id_present /\ m = "DELETE" -> "Delete"
      [] OTHER -> "View"

ActionName(a) ==
    CASE a = "View" -> "view"
      [] a = "Create" -> "create"
      [] a = "Edit" -> "edit"
      [] a = "Delete" -> "delete"

\* Row i of app_permissions is a Grant for (subject, path.controller, action)
GrantMatches(i) ==
    /\ IsSome(account_id)
    /\ IsSome(path.controller)
    /\ app_permissions[i] =
          [account_id |-> Unwrap(account_id),
           object |-> Unwrap(path.controller),
           action |-> ActionName(ResolvedAction(IsSome(path.id), method))]

HoldsGrant == \E i \in DOMAIN app_permissions : GrantMatches(i)

ConditionAttached ==
    \E j \in DOMAIN app_permission_conditions :
        GrantMatches(app_permission_conditions[j].permission_id)

\* The grant lookup ran (check() got past its connection and its unwraps)
LookedUp == IsSome(select_result)

LookupOk == LookedUp /\ Unwrap(select_result).ok

Conditions == Unwrap(select_result).conditions

Parses(name) == name \in {"isOwner", "isLoggedIn"}

\* Condition c validates true against the fetched resource and the subject
Validates(c) ==
    /\ IsSome(model)
    /\ Parses(c[1])
    /\ ModelAttribResult_validate(
          Unwrap(ModelAttrib_try_from(c[1])),
          get_attr(Unwrap(model), Unwrap(ModelAttrib_try_from(c[1]))),
          IF IsSome(account_id) THEN Some(to_string(Unwrap(account_id))) ELSE None,
          c[2])

Reorderings(s) ==
    { [i \in DOMAIN s |-> s[f[i]]] :
        f \in { g \in [DOMAIN s -> DOMAIN s] : \A a, b \in DOMAIN s : a # b => g[a] # g[b] } }

\* The for loop of check() on a list of conditions, lines 160-192
RECURSIVE LoopOutcome(_)
LoopOutcome(cs) ==
    IF Len(cs) = 0 THEN "PermissionDenied"
    ELSE IF ~IsSome(ModelAttrib_try_from(Head(cs)[1])) THEN "PermissionDenied"
    ELSE IF Validates(Head(cs)) THEN "Allow"
    ELSE LoopOutcome(Tail(cs))

----------------------------------------------------------------------------
\* C1: when storage holds no Grant for (subject, path.controller, resolved
\* action), check() never returns Allow, and once it has looked the grants up
\* it returns PermissionDenied, whatever conditions the tables hold.
C1_NoGrantDenies ==
    (Returned /\ ~HoldsGrant) =>
        /\ result # "Allow"
        /\ LookedUp => result = "PermissionDenied"

C1_Witness ==
    /\ Returned
    /\ ~HoldsGrant
    /\ LookupOk
    /\ Len(app_permissions) > 0
    /\ Len(app_permission_conditions) > 0
    /\ result = "PermissionDenied"

\* C2: a matching Grant with no Condition attached gives Allow with no side
\* effect: no audit write, no resource model fetched, whatever path.id and
\* the resource type are.
C2_GrantWithoutConditionsAllows ==
    (Returned /\ LookupOk /\ HoldsGrant /\ ~ConditionAttached) =>
        /\ result = "Allow"
        /\ audit_writes = 0
        /\ model = None

C2_Witness ==
    /\ Returned
    /\ LookupOk /\ HoldsGrant /\ ~ConditionAttached
    /\ path.controller = Some("mushaf")
    /\ path.id = None
    /\ result = "Allow"

\* C3: conditions are OR-combined. With a matching grant, at least one
\* returned condition and every returned name parsing, check() returns Allow
\* exactly when some condition validates true against the fetched resource and
\* the subject, and the loop gives the same outcome on every permutation of
\* the returned list.
C3_ConditionsAreOrCombined ==
    (/\ Returned /\ LookupOk /\ HoldsGrant
     /\ Len(Conditions) > 0
     /\ \A k \in DOMAIN Conditions : Parses(Conditions[k][1])) =>
        /\ result = "Allow" <=> \E k \in DOMAIN Conditions : Validates(Conditions[k])
        /\ IsSome(model) => \A p \in Reorderings(Conditions) : LoopOutcome(p) = result

C3_Witness ==
    /\ Returned /\ LookupOk /\ HoldsGrant
    /\ Len(Conditions) = 2
    /\ \A k \in DOMAIN Conditions : Parses(Conditions[k][1])
    /\ ~Validates(Conditions[1])
    /\ Validates(Conditions[2])
    /\ result = "Allow"

\* C4 as claimed: a name that does not parse, at any position of the returned
\* list, keeps check() from returning Allow.
C4_UnparseableAnywhereDenies ==
    (/\ Returned /\ LookupOk /\ HoldsGrant
     /\ \E k \in DOMAIN Conditions : ~Parses(Conditions[k][1])) =>
        result # "Allow"

FirstUnparseable ==
    CHOOSE k \in DOMAIN Conditions :
        /\ ~Parses(Conditions[k][1])
        /\ \A j \in 1..(k - 1) : Parses(Conditions[j][1])

\* C4 amended: when the returned list holds a name that does not parse and no
\* condition before the first such name validates true, check() does not
\* return Allow, and with the resource fetched it returns Deny at that name
\* without looking at the conditions after it, even when one of them would
\* validate true.
C4_UnparseableDeniesUnlessEarlierSuccess ==
    (/\ Returned /\ LookupOk /\ HoldsGrant
     /\ \E k \in DOMAIN Conditions : ~Parses(Conditions[k][1])
     /\ \A j \in 1..(FirstUnparseable - 1) : ~Validates(Conditions[j])) =>
        /\ result # "Allow"
        /\ IsSome(model) => (result = "PermissionDenied" /\ examined = FirstUnparseable)

C4_Witness ==
    /\ Returned /\ LookupOk /\ HoldsGrant
    /\ Len(Conditions) = 2
    /\ ~Parses(Conditions[1][1])
    /\ Validates(Conditions[2])
    /\ examined = 1
    /\ result = "PermissionDenied"

\* C5: a check that returns Deny has attempted exactly one AuditRecord write,
\* one that returns Allow none.
C5_OneAuditWritePerDeny ==
    Returned =>
        /\ result = "PermissionDenied" => audit_writes = 1
        /\ result = "Allow" => audit_writes = 0

\* C6: a failed grant or condition query is not reported as PermissionDenied.
C6_ReadErrorIsNotPermissionDenied ==
    (Returned /\ LookedUp /\ ~Unwrap(select_result).ok) => result # "PermissionDenied"

\* C7: whatever the request shape (subject, controller, id present or not,
\* id numeric or not, any method), a check that reached its grant lookup
\* returns Allow or a fault and does not panic.
C7_TotalOverRequestShapes ==
    (Returned /\ IsSome(calculated_action)) => result \in {"Allow", "PermissionDenied"}

\* C8: conditions to evaluate for a resource type outside the registry give
\* a per-request Deny, not a crash.
C8_UnsupportedResourceTypeDenies ==
    (/\ Returned /\ LookupOk /\ HoldsGrant
     /\ Len(Conditions) > 0
     /\ Unwrap(path.controller) \notin {"user", "organization"}
     /\ IsSome(path.id) /\ IsSome(ParseU32(Unwrap(path.id)))) =>
        result = "PermissionDenied"

\* C9: check() never returns Allow on the strength of a condition whose
\* literal is not a recognised ConditionValueType.
C9_UnrecognisedLiteralNeverAllows ==
    (Returned /\ result = "Allow" /\ examined > 0) =>
        IsSome(ConditionValueType_try_from(Conditions[examined][2]))

\* C10: the action computed by check() is the one the table gives for
\* (path.id present, method), for every combination, and is always one of the
\* four actions.
C10_ActionResolution ==
    IsSome(calculated_action) =>
        /\ Unwrap(calculated_action) = ResolvedAction(IsSome(path.id), method)
        /\ Unwrap(calculated_action) \in {"Create", "Edit", "Delete", "View"}

C10_Witness ==
    /\ IsSome(calculated_action)
    /\ path.id = None
    /\ method = "DELETE"
    /\ Unwrap(calculated_action) = "View"

\* C11: Owner.validate(attribute, subject, literal) is false without a
\* subject; with literal "true" it is true iff the attribute is present and
\* its decimal string equals the subject; with "false", true iff the attribute
\* is absent or its decimal string differs from the subject; with any other
\* literal and a subject present, true.
OwnerReference(attribute, subject, literal) ==
    IF subject = None THEN FALSE
    ELSE CASE literal = "true" ->
                attribute # None /\ to_string(attribute[1]) = subject[1]
           [] literal = "false" ->
                attribute = None \/ to_string(attribute[1]) # subject[1]
           [] OTHER -> TRUE

C11_OwnerValidateReference ==
    (validator.phase = "returned" /\ validator.condition = "Owner") =>
        validator.out =
            OwnerReference(validator.attribute, validator.subject, validator.literal)

C11_Witness ==
    /\ validator.phase = "returned"
    /\ validator.condition = "Owner"
    /\ validator.attribute = None
    /\ validator.subject = Some(<<"u", "s", "e", "r">>)
    /\ validator.literal = ""
    /\ validator.out = TRUE

\* C12: Login.validate(attribute, subject, literal) is true exactly when the
\* subject is present, for every attribute and every literal.
C12_LoginValidateIffSubject ==
    (validator.phase = "returned" /\ validator.condition = "Login") =>
        validator.out = (validator.subject # None)

C12_Witness ==
    /\ validator.phase = "returned"
    /\ validator.condition = "Login"
    /\ validator.attribute = Some(7)
    /\ validator.subject = None
    /\ validator.literal = "true"
    /\ validator.out = FALSE

\* C12, in check(): an Allow decided by an isLoggedIn condition is never
\* given to an anonymous request.
C12_LoginNeverAuthorizesAnonymous ==
    (Returned /\ result = "Allow" /\ examined > 0
     /\ Conditions[examined][1] = "isLoggedIn") => IsSome(account_id)

\* C13: when exactly one grant matches (subject s, "organization" or "user",
\* action) and it carries the single condition {isOwner, "true"}, check() on
\* resource id r returns Allow if the stored owner account of r is s and
\* PermissionDenied otherwise.
StoredOwner(kind, r) == IF kind = "user" THEN app_users[r] ELSE app_organizations[r]

OnlyOwnerCondition ==
    /\ Cardinality({i \in DOMAIN app_permissions : GrantMatches(i)}) = 1
    /\ LET attached ==
             { j \in DOMAIN app_permission_conditions :
                 GrantMatches(app_permission_conditions[j].permission_id) }
       IN  /\ Cardinality(attached) = 1
           /\ \A j \in attached :
                 /\ app_permission_conditions[j].name = "isOwner"
                 /\ app_permission_conditions[j].value = "true"

RequestedResource == Unwrap(ParseU32(Unwrap(path.id)))

OwnedResourceRequested ==
    /\ IsSome(path.controller)
    /\ Unwrap(path.controller) \in {"organization", "user"}
    /\ IsSome(path.id)
    /\ IsSome(ParseU32(Unwrap(path.id)))
    /\ RequestedResource \in DOMAIN app_organizations

C13_OwnerCheckEndToEnd ==
    (Returned /\ LookupOk /\ OwnedResourceRequested /\ OnlyOwnerCondition) =>
        IF StoredOwner(Unwrap(path.controller), RequestedResource) = Unwrap(account_id)
        THEN result = "Allow"
        ELSE result = "PermissionDenied"

C13_Witness ==
    /\ Returned /\ LookupOk /\ OwnedResourceRequested /\ OnlyOwnerCondition
    /\ account_id = Some(42)
    /\ path = [controller |-> Some("organization"), id |-> Some(<<"1", "7">>)]
    /\ method = "DELETE"
    /\ app_organizations[17] = 42
    /\ result = "Allow"

C13_WitnessDeny ==
    /\ Returned /\ LookupOk /\ OwnedResourceRequested /\ OnlyOwnerCondition
    /\ account_id = Some(42)
    /\ path = [controller |-> Some("organization"), id |-> Some(<<"1", "8">>)]
    /\ method = "DELETE"
    /\ app_organizations[18] = 99
    /\ result = "PermissionDenied"

\* C15: first success wins. The loop takes the conditions in the order
\* returned: while it runs, every condition it has consumed parsed and
\* evaluated false; it returns Allow at the first condition that validates
\* true, with no audit write and the later conditions not consumed; and it
\* returns Deny only when every condition before the stopping point evaluated
\* false and the loop stopped on an unparseable name or at the end of the list.
C15_FirstSuccessWins ==
    IsSome(model) =>
        /\ pc = "loop" =>
              \A j \in 1..examined :
                  Parses(Conditions[j][1]) /\ ~Validates(Conditions[j])
        /\ (Returned /\ result = "Allow") =>
              /\ examined \in DOMAIN Conditions
              /\ Validates(Conditions[examined])
              /\ \A j \in 1..(examined - 1) :
                    Parses(Conditions[j][1]) /\ ~Validates(Conditions[j])
              /\ audit_writes = 0
        /\ (Returned /\ result = "PermissionDenied") =>
              /\ \A j \in 1..examined : ~Validates(Conditions[j])
              /\ \A j \in 1..(examined - 1) : Parses(Conditions[j][1])
              /\ examined = Len(Conditions) \/ ~Parses(Conditions[examined][1])

C15_Witness ==
    /\ Returned
    /\ IsSome(model)
    /\ result = "Allow"
    /\ Len(Conditions) = 2
    /\ examined = 1
    /\ audit_writes = 0
    /\ ~Parses(Conditions[2][1])

\* C14: under concurrent checks on one bounded pool, a check that cannot get
\* a connection ends with a fault and not with a crash, and every connection
\* a check took is back in the pool once that check has ended.
C14_PoolExhaustionIsAFault ==
    \A p \in DOMAIN pool.checks :
        pool.checks[p].pc = "done" =>
            /\ pool.checks[p].starved => pool.checks[p].result # "Panic"
            /\ ~pool.checks[p].conn

\* C14, the release half: the connections handed out and the free ones add up
\* to the pool, and a check that has ended holds none.
C14_ConnectionsReturned ==
    /\ pool.free + Cardinality({p \in DOMAIN pool.checks : pool.checks[p].conn}) =
          (IF DOMAIN pool.checks = {} THEN 0 ELSE PoolSize)
    /\ \A p \in DOMAIN pool.checks : pool.checks[p].pc = "done" => ~pool.checks[p].conn

\* C16: the wrapped service is invoked only (a) for a readable Authorization
\* header whose token get_user_id accepted, and then with the verified id in
\* the request extensions, or (b) for no readable header when the header is
\* not required, with no id inserted. When get_user_id fails, or the header
\* is missing and required, the service is never invoked and that error is
\* the response.
HeaderReadable == middleware.header \notin {"absent", "opaque-bytes"}

C16_ServiceGatedByToken ==
    /\ middleware.service_called =>
          \/ /\ HeaderReadable
             /\ middleware.get_user_id = "ok"
             /\ middleware.token_finder[middleware.header] # None
             /\ middleware.service_saw = middleware.token_finder[middleware.header]
          \/ /\ ~HeaderReadable
             /\ ~middleware.authorization_header_required
             /\ middleware.service_saw = None
    /\ (middleware.phase = "done" /\ middleware.get_user_id = "err") =>
          /\ ~middleware.service_called
          /\ middleware.response = "get-user-id-error"
    /\ (middleware.phase = "done" /\ ~HeaderReadable
        /\ middleware.authorization_header_required) =>
          /\ ~middleware.service_called
          /\ middleware.response = "token-not-found"

C16_Witness ==
    /\ middleware.phase = "done"
    /\ middleware.header = "token-a"
    /\ middleware.service_called
    /\ middleware.service_saw = Some(42)
    /\ middleware.response = "service-response"

\* C17: add_permission is all-or-nothing: when it returns an error no Grant
\* row has been persisted, so no Grant is left with fewer conditions than
\* were requested.
C17_FailedAddPermissionPersistsNothing ==
    (add_perm.phase = "done" /\ add_perm.response = "Err") =>
        /\ app_permissions = << >>
        /\ app_permission_conditions = << >>

\* C17, the part that holds: a call that returns "Added" has stored the grant
\* with every requested condition, and a call that failed in its lookups or
\* in the permission insert has stored nothing.
C17_AddedStoresAllConditions ==
    /\ (add_perm.phase = "done" /\ add_perm.response = "Added") =>
          /\ Len(app_permissions) = 1
          /\ Len(app_permission_conditions) = Len(add_perm.new_permission.conditions)
    /\ (add_perm.phase = "done" /\ add_perm.new_id = None) => app_permissions = << >>
====
